---- MODULE Spec2Model ----
(***************************************************************************)
(* Model of the Tegra matrix keyboard controller driver                    *)
(* (drivers/input/keyboard/tegra-kbc.c): the FIFO decode / ghost filter /  *)
(* key diffing of tegra_kbc_report_keys, the interrupt + poll-timer scan   *)
(* mode state machine, and the start/stop/suspend/resume control paths.    *)
(*                                                                         *)
(* Execution contexts:                                                     *)
(*   - the interrupt handler tegra_kbc_isr            (isr_pc)             *)
(*   - the timer callback tegra_kbc_keypress_timer    (timer_pc)           *)
(*   - one control thread: open/close/suspend/resume  (ctl_pc, mutex)      *)
(* kbc->lock is the variable lock; a handler's critical section is two     *)
(* steps (acquire + first half, second half + release).                    *)
(***************************************************************************)
EXTENDS Integers, Sequences, FiniteSets, TLC

(* ------------------------------------------------------------------ *)
(* Bounds of the model                                                 *)
(* ------------------------------------------------------------------ *)

\* number of key entries decoded per FIFO read (KBC_MAX_KPENT is 8 on hardware)
MaxKpEnt == 3

\* largest FIFO occupancy count the timer callback reads (4-bit field on hardware)
MaxFifoCnt == 2

\* cap on the clock enable count (clk_prepare_enable is unbounded)
MaxClk == 2

\* cap on the IRQ disable depth (disable_irq nests without bound)
MaxIrqDepth == 3

(* ------------------------------------------------------------------ *)
(* Program constants                                                   *)
(* ------------------------------------------------------------------ *)

KBC_ROW_SHIFT == 3

\* KBC_MAX_ROW * KBC_MAX_COL: distance between the plain and the Fn keymap
KBC_MAX_KEY == 128

KBC_MAX_ROW == 16

\* linux/input.h key code of the Fn key
KEY_FN == 464

KBC_MAX_DEBOUNCE_CNT == 1023

KBC_ROW_SCAN_TIME == 16

KBC_ROW_SCAN_DLY == 5

KBC_CYCLE_MS == 32

DEFAULT_SCAN_COUNT == 2

DEFAULT_INIT_DLY == 5

(* ------------------------------------------------------------------ *)
(* The boards the model runs on: key matrices of up to 2 x 2 keys, and  *)
(* their keymap.                                                       *)
(* ------------------------------------------------------------------ *)

\* pin configurations (pdata->pin_cfg): the rows and the columns that are wired
FullBoard == [rows |-> {0, 1}, cols |-> {0, 1}]
OneKeyBoard == [rows |-> {0}, cols |-> {0}]

\* MATRIX_SCAN_CODE(row, col, row_shift), stored in an unsigned char
MATRIX_SCAN_CODE(row, col) == (row * (2 ^ KBC_ROW_SHIFT) + col) % 256

\* kbc->keycode[]: plain layer at [0, KBC_MAX_KEY), Fn layer KBC_MAX_KEY above.
\* (1,1) is the Fn key; every other entry of the table is 0 (kzalloc).
keycode(sc) ==
    CASE sc = 0 -> 30
      [] sc = 1 -> 48
      [] sc = 8 -> 46
      [] sc = 9 -> KEY_FN
      [] sc = KBC_MAX_KEY + 0 -> 2
      [] sc = KBC_MAX_KEY + 1 -> 3
      [] sc = KBC_MAX_KEY + 8 -> 4
      [] OTHER -> 0

\* one key-entry byte of the FIFO: bit 7 valid, bits 3-6 row, bits 0-2 column
KpEntByte(row, col) == 128 + row * 8 + col

\* bytes the FIFO lanes can hold: lanes without an entry (valid bit clear, the
\* row and column bits stale) and one valid entry per wired matrix position
InvalidBytes == {9}
ValidBytes(board) == {KpEntByte(r, c) : r \in board.rows, c \in board.cols}

\* what an uninitialised stack slot of keycodes[] may hold
StackJunk == {0, KEY_FN}

(* ------------------------------------------------------------------ *)
(* Generic helpers                                                     *)
(* ------------------------------------------------------------------ *)

Min(a, b) == IF a < b THEN a ELSE b

DIV_ROUND_UP(n, d) == (n + d - 1) \div d

Range(s) == {s[i] : i \in 1..Len(s)}

\* the array a[0..n-1] of the code is the sequence a[1..n]
Upd(a, i, v) == [a EXCEPT ![i + 1] = v]
At(a, i) == a[i + 1]

\* FIFO lanes of one read cycle, the valid entries being distinct positions
\* (a scan code never appears twice in one sample)
FifoSamples(board) ==
    {s \in [1..MaxKpEnt -> InvalidBytes \cup ValidBytes(board)] :
        \A i, j \in 1..MaxKpEnt :
            (i # j /\ s[i] \in ValidBytes(board)) => s[i] # s[j]}

\* a 32-bit register value is the sequence of its four bytes, low byte first
LowByte(val) == val[1]
ShiftRight8(val) == <<val[2], val[3], val[4], 0>>

\* the 32-bit words KBC_KP_ENT0_0, KBC_KP_ENT1_0, ... : four lanes per word,
\* lanes beyond the sample read as 0
KpEntWords(s) ==
    [w \in 0..((Len(s) - 1) \div 4) |->
        [k \in 1..4 |-> IF 4 * w + k <= Len(s) THEN s[4 * w + k] ELSE 0]]

(* ------------------------------------------------------------------ *)
(* Events handed to the input core                                     *)
(* ------------------------------------------------------------------ *)

\* input_report_key(dev, code, value)
EvKey(code, value) == [t |-> IF value = 1 THEN "press" ELSE "release", c |-> code]
\* input_event(dev, EV_MSC, MSC_SCAN, scancode)
EvScan(sc) == [t |-> "scan", c |-> sc]
\* input_sync(dev)
EvSync == [t |-> "sync", c |-> 0]

\* the keys the event sink holds down after a run of events
RECURSIVE SinkAfter(_, _)
SinkAfter(d, evs) ==
    IF evs = <<>> THEN d
    ELSE LET e == Head(evs)
             d1 == IF e.t = "press" THEN d \cup {e.c}
                   ELSE IF e.t = "release" THEN d \ {e.c}
                   ELSE d
         IN SinkAfter(d1, Tail(evs))

(* ------------------------------------------------------------------ *)
(* tegra_kbc_report_keys and its helpers                               *)
(* ------------------------------------------------------------------ *)

\* for (i = 0; i < old_num_keys; i++): report old_keycodes[i] released when
\* the inner loop finds it nowhere in new_keycodes[0 .. new_num_keys)
RECURSIVE ReleasedFrom(_, _, _, _, _)
ReleasedFrom(i, old_keycodes, old_num_keys, new_keycodes, new_num_keys) ==
    IF i >= old_num_keys THEN <<>>
    ELSE LET found == \E j \in 0..(new_num_keys - 1) :
                          At(old_keycodes, i) = At(new_keycodes, j)
             ev == IF found THEN <<>> ELSE <<EvKey(At(old_keycodes, i), 0)>>
         IN ev \o ReleasedFrom(i + 1, old_keycodes, old_num_keys,
                               new_keycodes, new_num_keys)

\* a release for every old key, found in the new array or not
tegra_kbc_report_released_keys_All(old_keycodes, old_num_keys, new_keycodes, new_num_keys) ==
    [i \in 1..old_num_keys |-> EvKey(old_keycodes[i], 0)]

tegra_kbc_report_released_keys(old_keycodes, old_num_keys, new_keycodes, new_num_keys) ==
    ReleasedFrom(0, old_keycodes, old_num_keys, new_keycodes, new_num_keys)

\* for (i = 0; i < num_pressed_keys; i++): MSC_SCAN event, then the key press
RECURSIVE PressedFrom(_, _, _, _)
PressedFrom(i, scancodes, keycodes, num) ==
    IF i >= num THEN <<>>
    ELSE <<EvScan(At(scancodes, i)), EvKey(At(keycodes, i), 1)>>
         \o PressedFrom(i + 1, scancodes, keycodes, num)

tegra_kbc_report_pressed_keys(scancodes, keycodes, num) ==
    PressedFrom(0, scancodes, keycodes, num)

\* the locals of tegra_kbc_report_keys before the decode loop; scancodes[] and
\* keycodes[] are uninitialised stack arrays
DecodeLocals(junk) ==
    [scancodes   |-> [i \in 1..MaxKpEnt |-> junk % 256],
     keycodes    |-> [i \in 1..MaxKpEnt |-> junk],
     num_down    |-> 0,
     fn_keypress |-> FALSE]

\* body of the decode loop for one lane: byte is the low byte of val
DecodeEntry(st, byte, fn_map) ==
    IF (byte \div 128) % 2 = 1
    THEN LET col == byte % 8
             row == (byte \div 8) % 16
             scancode == MATRIX_SCAN_CODE(row, col)
             kc == keycode(scancode)
             sc1 == Upd(st.scancodes, st.num_down, scancode)
             kc1 == Upd(st.keycodes, st.num_down, kc)
         IN IF kc = KEY_FN /\ fn_map
            THEN [st EXCEPT !.scancodes = sc1, !.keycodes = kc1,
                            !.fn_keypress = TRUE]
            ELSE [st EXCEPT !.scancodes = sc1, !.keycodes = kc1,
                            !.num_down = st.num_down + 1]
    ELSE st

\* for (i = 0; i < KBC_MAX_KPENT; i++): a word is read every fourth lane and
\* shifted right by 8 after each lane
RECURSIVE DecodeLoop(_, _, _, _, _)
DecodeLoop(i, val, st, words, fn_map) ==
    IF i >= MaxKpEnt THEN st
    ELSE LET v == IF i % 4 = 0 THEN words[i \div 4] ELSE val
         IN DecodeLoop(i + 1, ShiftRight8(v), DecodeEntry(st, LowByte(v), fn_map),
                       words, fn_map)

\* the ghost filter: over all pairs i < j of the decoded keys, key_in_same_col
\* and key_in_same_row are set independently
KeyInSameCol(scancodes, num_down) ==
    \E i \in 0..(num_down - 1) : \E j \in (i + 1)..(num_down - 1) :
        At(scancodes, j) % 8 = At(scancodes, i) % 8

KeyInSameRow(scancodes, num_down) ==
    \E i \in 0..(num_down - 1) : \E j \in (i + 1)..(num_down - 1) :
        At(scancodes, j) \div (2 ^ KBC_ROW_SHIFT)
            = At(scancodes, i) \div (2 ^ KBC_ROW_SHIFT)

\* the filter running only from four keys on
GhostFilterRuns_FromFour(ghost_filter, num_down) == ghost_filter /\ num_down > 3

\* the filter running whatever use_ghost_filter says
GhostFilterRuns_Always(ghost_filter, num_down) == num_down >= 3

GhostFilterRuns(ghost_filter, num_down) == ghost_filter /\ num_down >= 3

IgnoreKeyPresses(ghost_filter, scancodes, num_down) ==
    /\ GhostFilterRuns(ghost_filter, num_down)
    /\ KeyInSameCol(scancodes, num_down)
    /\ KeyInSameRow(scancodes, num_down)

\* the keys left on the plain layer although the Fn key is held
FnTranslate_PlainLayer(st) == st

\* if (fn_keypress): every decoded key moves to the Fn layer
FnTranslate(st) ==
    IF st.fn_keypress
    THEN LET sc == [i \in 1..MaxKpEnt |->
                       IF i <= st.num_down
                       THEN (st.scancodes[i] + KBC_MAX_KEY) % 256
                       ELSE st.scancodes[i]]
         IN [st EXCEPT !.scancodes = sc,
                       !.keycodes = [i \in 1..MaxKpEnt |->
                                        IF i <= st.num_down THEN keycode(sc[i])
                                        ELSE st.keycodes[i]]]
    ELSE st

\* the batch with the presses reported ahead of the releases
ReportBatch_PressesFirst(old_keycodes, old_num_keys, scancodes, keycodes, num_down) ==
    tegra_kbc_report_pressed_keys(scancodes, keycodes, num_down)
    \o tegra_kbc_report_released_keys(old_keycodes, old_num_keys, keycodes, num_down)
    \o <<EvSync>>

\* the events of one reported sample, in the order the code emits them
ReportBatch(old_keycodes, old_num_keys, scancodes, keycodes, num_down) ==
    tegra_kbc_report_released_keys(old_keycodes, old_num_keys, keycodes, num_down)
    \o tegra_kbc_report_pressed_keys(scancodes, keycodes, num_down)
    \o <<EvSync>>

\* tegra_kbc_report_keys: result is the events emitted and the new
\* (current_keys, num_pressed_keys); the ghost filter looks at the scan codes
\* as decoded, before the Fn translation
tegra_kbc_report_keys(sample, fn_map, ghost_filter, cur, num, junk) ==
    LET dec == DecodeLoop(0, <<0, 0, 0, 0>>, DecodeLocals(junk),
                          KpEntWords(sample), fn_map)
        st == FnTranslate(dec)
    IN IF IgnoreKeyPresses(ghost_filter, dec.scancodes, dec.num_down)
       THEN [discarded |-> TRUE, events |-> <<>>,
             current_keys |-> cur, num_pressed_keys |-> num]
       ELSE [discarded |-> FALSE,
             events |-> ReportBatch(cur, num, st.scancodes, st.keycodes, st.num_down),
             current_keys |-> st.keycodes,
             num_pressed_keys |-> st.num_down]

(* ------------------------------------------------------------------ *)
(* Probe-time values                                                   *)
(* ------------------------------------------------------------------ *)

\* timing of the platform data
PdataDebounceCnt == 2
PdataRepeatCnt == 5
PdataScanCount == 0

\* tegra_kbc_probe: scan_time_rows, repoll_dly, scan_timeout_count
ScanTimeRows(num_rows) ==
    (KBC_ROW_SCAN_TIME + Min(PdataDebounceCnt, KBC_MAX_DEBOUNCE_CNT)) * num_rows

RepollDly(num_rows) ==
    DIV_ROUND_UP(KBC_ROW_SCAN_DLY + ScanTimeRows(num_rows) + PdataRepeatCnt,
                 KBC_CYCLE_MS)

ScanTimeoutCount(num_rows) ==
    (IF PdataScanCount # 0
     THEN DEFAULT_INIT_DLY
          + (ScanTimeRows(num_rows) + PdataRepeatCnt) * PdataScanCount
     ELSE DEFAULT_INIT_DLY
          + (ScanTimeRows(num_rows) + PdataRepeatCnt) * DEFAULT_SCAN_COUNT)
    % (2 ^ 20)

\* wake configurations of the platform data: not a wakeup source, a wakeup
\* source without wake keys or wakeup key, a wakeup source whose wake keys are
\* (0,0) and (1,2) and whose wakeup key code is that of (0,0)
WakeConfigs ==
    { [wakeup |-> FALSE, wakeup_key |-> 0,  wake_cfg |-> <<>>],
      [wakeup |-> TRUE,  wakeup_key |-> 0,  wake_cfg |-> <<>>],
      [wakeup |-> TRUE,  wakeup_key |-> 30, wake_cfg |-> <<[row |-> 0, col |-> 0], [row |-> 1, col |-> 2]>>] }

(* ------------------------------------------------------------------ *)
(* State                                                               *)
(* ------------------------------------------------------------------ *)

VARIABLES
    pdata,                 \* board, use_fn_map, use_ghost_filter, wakeup, wakeup_key,
                           \* wake_cfg
    current_keys,          \* kbc->current_keys[]
    num_pressed_keys,      \* kbc->num_pressed_keys
    keypress_caused_wake,  \* kbc->keypress_caused_wake
    is_open,               \* kbc->is_open
    cp_to_wkup_dly,        \* kbc->cp_to_wkup_dly
    ctrl,                  \* KBC_CONTROL_0: KBC_EN, FIFO_CNT_INT_EN, KEYPRESS_INT_EN
    to_cnt,                \* KBC_TO_CNT_0
    row_mask,              \* KBC_ROW0_MASK_0 + 4 * row: the column bits (low byte)
    irq_depth,             \* disable depth of kbc->irq (0: enabled)
    irq_wake,              \* enable_irq_wake / disable_irq_wake
    timer,                 \* kbc->timer: "off", or the delay it is armed with
    clk_count,             \* enable count of kbc->clk
    lock,                  \* holder of kbc->lock
    mutex,                 \* holder of kbc->idev->mutex
    users,                 \* kbc->idev->users
    suspended,             \* the system is between suspend and resume
    isr_pc,                \* position of tegra_kbc_isr
    timer_pc,              \* position of tegra_kbc_keypress_timer
    ctl_pc,                \* position of the control thread
    ctl_val,               \* the control thread's local val (read of KBC_CONTROL_0)
    batch,                 \* events emitted by the step just taken
    isr_ack,               \* status bits the ISR wrote back to KBC_INT_0 in the
                           \* step just taken
    kp_ent,                \* lanes of KBC_KP_ENT*_0 read by the step just taken
    old_keys,              \* CurrentKeys as tegra_kbc_report_keys found it in that step
    down,                  \* codes the event sink holds down (press without release)
    hist                   \* completed starts and stops, for the stop/start claims

cfgvars == <<pdata>>
keyvars == <<current_keys, num_pressed_keys>>
regvars == <<ctrl, to_cnt, row_mask>>
irqvars == <<irq_depth, irq_wake>>
sysvars == <<users, suspended>>
vars == <<pdata, current_keys, num_pressed_keys, keypress_caused_wake, is_open,
          cp_to_wkup_dly, ctrl, to_cnt, row_mask, irq_depth, irq_wake, timer,
          clk_count, lock, mutex, users, suspended, isr_pc, timer_pc, ctl_pc,
          ctl_val, batch, isr_ack, kp_ent, old_keys, down, hist>>

NoSnap == [taken |-> FALSE]

\* the control thread's val while no read of KBC_CONTROL_0 is in progress
NoVal == [kbc_en |-> FALSE, fifo_int_en |-> FALSE, kp_int_en |-> FALSE]

\* the part of the controller state a stop leaves behind
StopState(d, c, o, t, r) ==
    [taken |-> TRUE, irq_depth |-> d, clk_count |-> c, is_open |-> o,
     timer |-> t, ctrl |-> r]

\* every step hands its events to the sink; a step that calls Events reads no
\* key entry
Events(evs) ==
    /\ batch' = evs
    /\ down' = SinkAfter(down, evs)
    /\ kp_ent' = <<>>
    /\ old_keys' = <<>>

\* a step outside the ISR writes no status back
Emit(evs) ==
    /\ Events(evs)
    /\ isr_ack' = {}

\* state after tegra_kbc_probe: IRQ requested and disabled, timer set up,
\* kbc zeroed, registers at their reset values
Probed(boards, fn_maps, ghost_filters, wakes) ==
    /\ pdata \in {[board |-> b, use_fn_map |-> f, use_ghost_filter |-> g,
                   wakeup |-> w.wakeup, wakeup_key |-> w.wakeup_key,
                   wake_cfg |-> w.wake_cfg] :
                      b \in boards, f \in fn_maps, g \in ghost_filters,
                      w \in wakes}
    /\ current_keys = [i \in 1..MaxKpEnt |-> 0]
    /\ num_pressed_keys = 0
    /\ keypress_caused_wake = FALSE
    /\ is_open = 0
    /\ cp_to_wkup_dly = 0
    /\ ctrl = [kbc_en |-> FALSE, fifo_int_en |-> FALSE, kp_int_en |-> FALSE]
    /\ to_cnt = 0
    /\ row_mask = [r \in 0..(KBC_MAX_ROW - 1) |-> 0]
    /\ irq_depth = 1
    /\ irq_wake = FALSE
    /\ timer = "off"
    /\ clk_count = 0
    /\ lock = "free"
    /\ mutex = "free"
    /\ users = 0
    /\ suspended = FALSE
    /\ isr_pc = "idle"
    /\ timer_pc = "idle"
    /\ ctl_pc = "idle"
    /\ ctl_val = NoVal
    /\ batch = <<>>
    /\ isr_ack = {}
    /\ kp_ent = <<>>
    /\ old_keys = <<>>
    /\ down = {}
    /\ hist = [stops |-> 0, snap |-> NoSnap]

(* ------------------------------------------------------------------ *)
(* Register helpers                                                    *)
(* ------------------------------------------------------------------ *)

\* tegra_kbc_set_fifo_interrupt: what is written back for the value read
SetFifoInterrupt(val, enable) == [val EXCEPT !.fifo_int_en = enable]

\* tegra_kbc_set_keypress_interrupt: what is written back for the value read
SetKeypressInterrupt(val, enable) == [val EXCEPT !.kp_int_en = enable]

\* tegra_kbc_setup_wakekeys: rst_val to every row, then the bit of each wake
\* key cleared when filtering
\* val &= ~(1 << col)
ClearBit(val, col) == IF (val \div (2 ^ col)) % 2 = 1 THEN val - 2 ^ col ELSE val

RECURSIVE ClearWakeBits(_, _, _)
ClearWakeBits(m, cfg, i) ==
    IF i > Len(cfg) THEN m
    ELSE ClearWakeBits([m EXCEPT ![cfg[i].row] = ClearBit(@, cfg[i].col)],
                       cfg, i + 1)

\* the low byte of ~0: the mask bits of the KBC_MAX_COL columns
AllColumnsMasked == 255

\* the wake masks written with 0 whether or not wake keys are configured
ResetValue_AlwaysZero(filter, wake_cnt) == 0

\* rst_val = (filter && pdata->wake_cnt) ? ~0 : 0
ResetValue(filter, wake_cnt) == IF filter /\ wake_cnt # 0 THEN AllColumnsMasked ELSE 0

tegra_kbc_setup_wakekeys(cfg, filter) ==
    LET rst_val == ResetValue(filter, Len(cfg))
        m == [r \in 0..(KBC_MAX_ROW - 1) |-> rst_val]
    IN IF filter THEN ClearWakeBits(m, cfg, 1) ELSE m

\* enable_irq: the depth goes down by one; at depth 0 the call is unbalanced
\* and changes nothing
EnableIrq(d) == IF d > 0 THEN d - 1 ELSE 0

\* clk_disable_unprepare: a disable of a clock that is not enabled changes nothing
ClkDisable(c) == IF c > 0 THEN c - 1 ELSE 0

(* ------------------------------------------------------------------ *)
(* tegra_kbc_isr                                                       *)
(* ------------------------------------------------------------------ *)

\* the interrupt line is raised by a status bit whose enable bit is set
IrqLine(fifo_st, kp_st) ==
    \/ fifo_st /\ ctrl.fifo_int_en
    \/ kp_st /\ ctrl.kp_int_en

\* the handler may be entered
IsrMayRun == irq_depth = 0 /\ isr_pc = "idle"

\* val = readl(kbc->mmio + KBC_INT_0): the status bits that are set
StatusRead(fifo_st, kp_st) ==
    (IF fifo_st THEN {"fifo_cnt"} ELSE {}) \cup (IF kp_st THEN {"keypress"} ELSE {})

\* the handler writing nothing back to the status register
IsrStatusWrite_None(val) == {}

\* writel(val, kbc->mmio + KBC_INT_0): the bits written as 1 are cleared
IsrStatusWrite(val) == val

\* spin_lock_irqsave; val = readl(KBC_INT_0); writel(val, KBC_INT_0); then the
\* first half of the branch taken
tegra_kbc_isr_enter ==
    /\ IsrMayRun
    /\ lock = "free"
    /\ \E fifo_st \in BOOLEAN, kp_st \in BOOLEAN :
          /\ IrqLine(fifo_st, kp_st)
          /\ isr_ack' = IsrStatusWrite(StatusRead(fifo_st, kp_st))
          /\ IF fifo_st
             THEN /\ ctrl' = SetFifoInterrupt(ctrl, FALSE)
                  /\ isr_pc' = "arm"
                  /\ UNCHANGED keypress_caused_wake
             ELSE /\ keypress_caused_wake' = TRUE
                  /\ isr_pc' = "unlock"
                  /\ UNCHANGED ctrl
    /\ lock' = "isr"
    /\ Events(<<>>)
    /\ UNCHANGED <<cfgvars, keyvars, is_open, cp_to_wkup_dly, to_cnt, row_mask,
                   irqvars, timer, clk_count, mutex, sysvars, timer_pc, ctl_pc,
                   ctl_val, hist>>

\* the timer delay the handler arms
IsrTimerDelay == "cp_dly"

\* mod_timer(&kbc->timer, jiffies + kbc->cp_dly_jiffies) on the threshold
\* branch; spin_unlock_irqrestore
tegra_kbc_isr_exit ==
    /\ isr_pc \in {"arm", "unlock"}
    /\ lock = "isr"
    /\ timer' = IF isr_pc = "arm" THEN IsrTimerDelay ELSE timer
    /\ lock' = "free"
    /\ isr_pc' = "idle"
    /\ Emit(<<>>)
    /\ UNCHANGED <<cfgvars, keyvars, keypress_caused_wake, is_open, cp_to_wkup_dly,
                   regvars, irqvars, clk_count, mutex, sysvars, timer_pc, ctl_pc,
                   ctl_val, hist>>

(* ------------------------------------------------------------------ *)
(* tegra_kbc_keypress_timer                                            *)
(* ------------------------------------------------------------------ *)

\* the timer expires: it is no longer pending and its callback is invoked; a
\* timer is never run while its own callback is still running
TimerExpire ==
    /\ timer # "off"
    /\ timer_pc = "idle"
    /\ timer' = "off"
    /\ timer_pc' = "entry"
    /\ Emit(<<>>)
    /\ UNCHANGED <<cfgvars, keyvars, keypress_caused_wake, is_open, cp_to_wkup_dly,
                   regvars, irqvars, clk_count, lock, mutex, sysvars, isr_pc,
                   ctl_pc, ctl_val, hist>>

\* the else branch releasing only the first of the pressed keys
ReleaseAll_FirstOnly(cur, num) == [i \in 1..Min(num, 1) |-> EvKey(cur[i], 0)] \o <<EvSync>>

\* else branch: one release per current key, then the sync
ReleaseAll(cur, num) ==
    [i \in 1..num |-> EvKey(cur[i], 0)] \o <<EvSync>>

\* dly = (val == 1) ? kbc->repoll_dly : 1
PollDelay(val) == IF val = 1 THEN "repoll_dly" ELSE "min_dly"

\* num_pressed_keys the else branch leaves
ZeroPollNumKeys == 0

\* spin_lock_irqsave; val = (readl(KBC_INT_0) >> 4) & 0xf; non-zero:
\* tegra_kbc_report_keys; zero: release the pressed keys
tegra_kbc_keypress_timer_poll ==
    /\ timer_pc = "entry"
    /\ lock = "free"
    /\ lock' = "timer"
    /\ \E val \in 0..MaxFifoCnt :
          IF val # 0
          THEN \E sample \in FifoSamples(pdata.board), junk \in StackJunk :
                  LET r == tegra_kbc_report_keys(sample, pdata.use_fn_map,
                                                 pdata.use_ghost_filter,
                                                 current_keys, num_pressed_keys,
                                                 junk)
                  IN /\ kp_ent' = sample
                     /\ old_keys' = SubSeq(current_keys, 1, num_pressed_keys)
                     /\ batch' = r.events
                     /\ down' = SinkAfter(down, batch')
                     /\ isr_ack' = {}
                     /\ current_keys' = r.current_keys
                     /\ num_pressed_keys' = r.num_pressed_keys
                     /\ timer_pc' = PollDelay(val)
          ELSE /\ Emit(ReleaseAll(current_keys, num_pressed_keys))
               /\ num_pressed_keys' = ZeroPollNumKeys
               /\ timer_pc' = "enable_int"
               /\ UNCHANGED current_keys
    /\ UNCHANGED <<cfgvars, keypress_caused_wake, is_open, cp_to_wkup_dly, regvars,
                   irqvars, timer, clk_count, mutex, sysvars, isr_pc, ctl_pc,
                   ctl_val, hist>>

\* the callback re-arming the timer after a zero-occupancy poll as well
TimerAfterPoll_AlwaysRearm(pc, t) == IF pc = "enable_int" THEN "min_dly" ELSE pc

\* the callback leaving the timer as it found it after a sample
TimerAfterPoll_NeverRearm(pc, t) == t

\* what the callback leaves the timer as: mod_timer after a sample, untouched
\* after a zero-occupancy poll
TimerAfterPoll(pc, t) == IF pc = "enable_int" THEN t ELSE pc

\* mod_timer(&kbc->timer, jiffies + msecs_to_jiffies(dly)) after a sample,
\* called with kbc->lock still held
tegra_kbc_keypress_timer_rearm ==
    /\ timer_pc \in {"repoll_dly", "min_dly"}
    /\ lock = "timer"
    /\ timer' = TimerAfterPoll(timer_pc, timer)
    /\ timer_pc' = "unlock"
    /\ Emit(<<>>)
    /\ UNCHANGED <<cfgvars, keyvars, keypress_caused_wake, is_open, cp_to_wkup_dly,
                   regvars, irqvars, clk_count, lock, mutex, sysvars, isr_pc,
                   ctl_pc, ctl_val, hist>>

\* tegra_kbc_set_fifo_interrupt(kbc, true) after a zero-occupancy poll;
\* spin_unlock_irqrestore
tegra_kbc_keypress_timer_exit ==
    /\ timer_pc \in {"unlock", "enable_int"}
    /\ lock = "timer"
    /\ timer' = IF timer_pc = "enable_int" THEN TimerAfterPoll(timer_pc, timer) ELSE timer
    /\ ctrl' = IF timer_pc = "enable_int" THEN SetFifoInterrupt(ctrl, TRUE) ELSE ctrl
    /\ lock' = "free"
    /\ timer_pc' = "idle"
    /\ Emit(<<>>)
    /\ UNCHANGED <<cfgvars, keyvars, keypress_caused_wake, is_open, cp_to_wkup_dly,
                   to_cnt, row_mask, irqvars, clk_count, mutex, sysvars, isr_pc,
                   ctl_pc, ctl_val, hist>>

(* ------------------------------------------------------------------ *)
(* tegra_kbc_start and tegra_kbc_stop                                  *)
(* ------------------------------------------------------------------ *)

\* the value tegra_kbc_start writes to KBC_CONTROL_0 (debounce count and FIFO
\* threshold are fixed fields and left out)
StartControl == [kbc_en |-> TRUE, fifo_int_en |-> TRUE, kp_int_en |-> TRUE]

\* IRQ depth after the enable_irq of tegra_kbc_start
StartIrqDepth(d) == EnableIrq(d)

\* tegra_kbc_start, which takes no lock: clock on, is_open, controller reset,
\* wake masks cleared, control register written, timeout count written,
\* num_pressed_keys zeroed, FIFO drained and status cleared, IRQ enabled
tegra_kbc_start ==
    /\ clk_count' = clk_count + 1
    /\ is_open' = 1
    /\ row_mask' = tegra_kbc_setup_wakekeys(pdata.wake_cfg, FALSE)
    /\ ctrl' = StartControl
    /\ to_cnt' = ScanTimeoutCount(Cardinality(pdata.board.rows))
    /\ num_pressed_keys' = 0
    /\ irq_depth' = StartIrqDepth(irq_depth)
    /\ hist' = [stops |-> 0, snap |-> NoSnap]
    /\ Emit(<<>>)
    /\ UNCHANGED <<cfgvars, current_keys, keypress_caused_wake, cp_to_wkup_dly,
                   irq_wake, timer, lock, isr_pc, timer_pc, ctl_val>>

\* tegra_kbc_stop, first step: under kbc->lock, clear KBC_CONTROL_KBC_EN
tegra_kbc_stop_ctrl ==
    /\ ctl_pc = "stop_ctrl"
    /\ lock = "free"
    /\ ctrl' = [ctrl EXCEPT !.kbc_en = FALSE]
    /\ ctl_pc' = "stop_irq"
    /\ Emit(<<>>)
    /\ UNCHANGED <<cfgvars, keyvars, keypress_caused_wake, is_open, cp_to_wkup_dly,
                   to_cnt, row_mask, irqvars, timer, clk_count, lock, mutex,
                   sysvars, isr_pc, timer_pc, ctl_val, hist>>

\* del_timer in place of del_timer_sync: no wait for a running callback
DelTimerSyncMayReturn_NoWait == TRUE

\* disable_irq returns once no handler of the IRQ is running
DisableIrqMayReturn == isr_pc = "idle"

\* del_timer_sync returns once the callback is not running
DelTimerSyncMayReturn == timer_pc = "idle"

\* tegra_kbc_stop, second step: disable_irq(kbc->irq)
tegra_kbc_stop_irq ==
    /\ ctl_pc = "stop_irq"
    /\ DisableIrqMayReturn
    /\ irq_depth < MaxIrqDepth
    /\ irq_depth' = irq_depth + 1
    /\ ctl_pc' = "stop_timer"
    /\ Emit(<<>>)
    /\ UNCHANGED <<cfgvars, keyvars, keypress_caused_wake, is_open, cp_to_wkup_dly,
                   regvars, irq_wake, timer, clk_count, lock, mutex, sysvars,
                   isr_pc, timer_pc, ctl_val, hist>>

\* tegra_kbc_stop, last step: del_timer_sync, clk_disable_unprepare,
\* is_open = 0; then the caller (close, suspend, or a direct call) returns
tegra_kbc_stop_timer ==
    /\ ctl_pc = "stop_timer"
    /\ DelTimerSyncMayReturn
    /\ timer' = "off"
    /\ clk_count' = ClkDisable(clk_count)
    /\ is_open' = 0
    /\ hist' = [stops |-> Min(hist.stops + 1, 2),
                snap |-> IF hist.stops = 0
                         THEN StopState(irq_depth, clk_count', 0, "off", ctrl)
                         ELSE hist.snap]
    /\ suspended' = (mutex = "suspend")
    /\ mutex' = "free"
    /\ ctl_pc' = "idle"
    /\ Emit(<<>>)
    /\ UNCHANGED <<cfgvars, keyvars, keypress_caused_wake, cp_to_wkup_dly, regvars,
                   irqvars, lock, users, isr_pc, timer_pc, ctl_val>>

(* ------------------------------------------------------------------ *)
(* open and close through the input core                               *)
(* ------------------------------------------------------------------ *)

\* number of handles the model opens at once
MaxUsers == 1

\* input_open_device under idev->mutex: the first user calls tegra_kbc_open
tegra_kbc_open ==
    /\ ctl_pc = "idle"
    /\ ~suspended
    /\ users < MaxUsers
    /\ users' = users + 1
    /\ IF users = 0
       THEN /\ clk_count < MaxClk
            /\ tegra_kbc_start
       ELSE /\ Emit(<<>>)
            /\ UNCHANGED <<cfgvars, keyvars, keypress_caused_wake, is_open,
                           cp_to_wkup_dly, regvars, irqvars, timer, clk_count,
                           lock, isr_pc, timer_pc, ctl_val, hist>>
    /\ UNCHANGED <<mutex, suspended, ctl_pc>>

\* input_close_device under idev->mutex: the last user calls tegra_kbc_close
tegra_kbc_close ==
    /\ ctl_pc = "idle"
    /\ ~suspended
    /\ users > 0
    /\ users' = users - 1
    /\ IF users = 1
       THEN mutex' = "close" /\ ctl_pc' = "stop_ctrl"
       ELSE UNCHANGED <<mutex, ctl_pc>>
    /\ Emit(<<>>)
    /\ UNCHANGED <<cfgvars, keyvars, keypress_caused_wake, is_open, cp_to_wkup_dly,
                   regvars, irqvars, timer, clk_count, lock, suspended, isr_pc,
                   timer_pc, ctl_val, hist>>

(* ------------------------------------------------------------------ *)
(* tegra_kbc_suspend                                                   *)
(* ------------------------------------------------------------------ *)

\* entry of tegra_kbc_suspend: nothing when the device is not open; else
\* idev->mutex is taken and either the wake path or tegra_kbc_stop follows
tegra_kbc_suspend ==
    /\ ctl_pc = "idle"
    /\ ~suspended
    /\ IF is_open = 0
       THEN suspended' = TRUE /\ UNCHANGED <<mutex, ctl_pc>>
       ELSE IF pdata.wakeup
       THEN mutex' = "suspend" /\ ctl_pc' = "susp_irq" /\ UNCHANGED suspended
       ELSE IF users > 0
       THEN mutex' = "suspend" /\ ctl_pc' = "stop_ctrl" /\ UNCHANGED suspended
       ELSE suspended' = TRUE /\ UNCHANGED <<mutex, ctl_pc>>
    /\ Emit(<<>>)
    /\ UNCHANGED <<cfgvars, keyvars, keypress_caused_wake, is_open, cp_to_wkup_dly,
                   regvars, irqvars, timer, clk_count, lock, users, isr_pc,
                   timer_pc, ctl_val, hist>>

\* wake path: disable_irq(kbc->irq)
tegra_kbc_suspend_irq ==
    /\ ctl_pc = "susp_irq"
    /\ DisableIrqMayReturn
    /\ irq_depth < MaxIrqDepth
    /\ irq_depth' = irq_depth + 1
    /\ ctl_pc' = "susp_timer"
    /\ Emit(<<>>)
    /\ UNCHANGED <<cfgvars, keyvars, keypress_caused_wake, is_open, cp_to_wkup_dly,
                   regvars, irq_wake, timer, clk_count, lock, mutex, sysvars,
                   isr_pc, timer_pc, ctl_val, hist>>

\* wake path: del_timer_sync, FIFO interrupt off, status cleared, timeout
\* count saved and zeroed, wake keys set up, keypress_caused_wake cleared,
\* keypress interrupt on, enable_irq, enable_irq_wake, mutex released
tegra_kbc_suspend_wake ==
    /\ ctl_pc = "susp_timer"
    /\ DelTimerSyncMayReturn
    /\ timer' = "off"
    /\ ctrl' = SetKeypressInterrupt(SetFifoInterrupt(ctrl, FALSE), TRUE)
    /\ cp_to_wkup_dly' = to_cnt
    /\ to_cnt' = 0
    /\ row_mask' = tegra_kbc_setup_wakekeys(pdata.wake_cfg, TRUE)
    /\ keypress_caused_wake' = FALSE
    /\ irq_depth' = EnableIrq(irq_depth)
    /\ irq_wake' = TRUE
    /\ mutex' = "free"
    /\ suspended' = TRUE
    /\ ctl_pc' = "idle"
    /\ Emit(<<>>)
    /\ UNCHANGED <<cfgvars, keyvars, is_open, clk_count, lock, users, isr_pc,
                   timer_pc, ctl_val, hist>>

(* ------------------------------------------------------------------ *)
(* tegra_kbc_resume                                                    *)
(* ------------------------------------------------------------------ *)

\* the paths of tegra_kbc_resume that call tegra_kbc_start
ResumeStarts == is_open = 0 \/ (~pdata.wakeup /\ users > 0)

\* entry of tegra_kbc_resume: a device that is not open is started without the
\* mutex; else under idev->mutex the wake path begins (disable_irq_wake, wake
\* masks cleared, KBC_CONTROL_0 read), or the device is started for its users
tegra_kbc_resume ==
    /\ ctl_pc = "idle"
    /\ suspended
    /\ IF ResumeStarts
       THEN /\ clk_count < MaxClk
            /\ tegra_kbc_start
            /\ suspended' = FALSE
            /\ UNCHANGED <<mutex, ctl_pc>>
       ELSE IF pdata.wakeup
       THEN /\ mutex' = "resume"
            /\ irq_wake' = FALSE
            /\ row_mask' = tegra_kbc_setup_wakekeys(pdata.wake_cfg, FALSE)
            /\ ctl_val' = ctrl
            /\ ctl_pc' = "res_kp"
            /\ Emit(<<>>)
            /\ UNCHANGED <<cfgvars, keyvars, keypress_caused_wake, is_open,
                           cp_to_wkup_dly, ctrl, to_cnt, irq_depth, timer,
                           clk_count, lock, suspended, isr_pc, timer_pc, hist>>
       ELSE /\ suspended' = FALSE
            /\ Emit(<<>>)
            /\ UNCHANGED <<cfgvars, keyvars, keypress_caused_wake, is_open,
                           cp_to_wkup_dly, regvars, irqvars, timer, clk_count,
                           lock, mutex, isr_pc, timer_pc, ctl_pc, ctl_val, hist>>
    /\ UNCHANGED users

\* wake path: the keypress interrupt enable is written back cleared, the
\* timeout count restored, and KBC_CONTROL_0 read for the FIFO interrupt
tegra_kbc_resume_kp ==
    /\ ctl_pc = "res_kp"
    /\ ctrl' = SetKeypressInterrupt(ctl_val, FALSE)
    /\ to_cnt' = cp_to_wkup_dly
    /\ ctl_val' = ctrl'
    /\ ctl_pc' = "res_fifo"
    /\ Emit(<<>>)
    /\ UNCHANGED <<cfgvars, keyvars, keypress_caused_wake, is_open, cp_to_wkup_dly,
                   row_mask, irqvars, timer, clk_count, lock, mutex, sysvars,
                   isr_pc, timer_pc, hist>>

\* the wakeup key reported as pressed and never released
WakeEvents_PressOnly(caused, key) == IF caused /\ key # 0 THEN <<EvKey(key, 1), EvSync>> ELSE <<>>

\* the events of the synthetic wakeup key press
WakeEvents(caused, key) ==
    IF caused /\ key # 0
    THEN <<EvKey(key, 1), EvKey(key, 0), EvSync>>
    ELSE <<>>

\* wake path: the FIFO interrupt enable is written back set, the wakeup key
\* is reported, the mutex released
tegra_kbc_resume_fifo ==
    /\ ctl_pc = "res_fifo"
    /\ ctrl' = SetFifoInterrupt(ctl_val, TRUE)
    /\ Emit(WakeEvents(keypress_caused_wake, pdata.wakeup_key))
    /\ ctl_val' = NoVal
    /\ mutex' = "free"
    /\ suspended' = FALSE
    /\ ctl_pc' = "idle"
    /\ UNCHANGED <<cfgvars, keyvars, keypress_caused_wake, is_open, cp_to_wkup_dly,
                   to_cnt, row_mask, irqvars, timer, clk_count, lock, users,
                   isr_pc, timer_pc, hist>>

(* ------------------------------------------------------------------ *)
(* Direct calls of the driver's start and stop                         *)
(* ------------------------------------------------------------------ *)

\* a caller enters tegra_kbc_stop whatever the state of the controller
CallStop ==
    /\ ctl_pc = "idle"
    /\ mutex' = "call"
    /\ ctl_pc' = "stop_ctrl"
    /\ Emit(<<>>)
    /\ UNCHANGED <<cfgvars, keyvars, keypress_caused_wake, is_open, cp_to_wkup_dly,
                   regvars, irqvars, timer, clk_count, lock, sysvars, isr_pc,
                   timer_pc, ctl_val, hist>>

\* a caller runs tegra_kbc_start
CallStart ==
    /\ ctl_pc = "idle"
    /\ clk_count < MaxClk
    /\ tegra_kbc_start
    /\ UNCHANGED <<mutex, sysvars, ctl_pc>>

(* ------------------------------------------------------------------ *)
(* Specifications                                                      *)
(* ------------------------------------------------------------------ *)

Handlers ==
    \/ tegra_kbc_isr_enter
    \/ tegra_kbc_isr_exit
    \/ TimerExpire
    \/ tegra_kbc_keypress_timer_poll
    \/ tegra_kbc_keypress_timer_rearm
    \/ tegra_kbc_keypress_timer_exit

StopSteps ==
    \/ tegra_kbc_stop_ctrl
    \/ tegra_kbc_stop_irq
    \/ tegra_kbc_stop_timer

\* the driver under the input core and the PM core
Next ==
    \/ Handlers
    \/ StopSteps
    \/ tegra_kbc_open
    \/ tegra_kbc_close
    \/ tegra_kbc_suspend
    \/ tegra_kbc_suspend_irq
    \/ tegra_kbc_suspend_wake
    \/ tegra_kbc_resume
    \/ tegra_kbc_resume_kp
    \/ tegra_kbc_resume_fifo

\* a board with a single key, every wake configuration
Init == Probed({OneKeyBoard}, {FALSE}, {TRUE}, WakeConfigs)

Spec == Init /\ [][Next]_vars

\* the state of an opened device: after probe and open, or (resumed) after
\* probe, open, suspend and resume of a wakeup-capable device with no key
\* pressed in between, which leaves the keypress interrupt off and the scan
\* timeout count saved
Running(boards, fn_maps, ghost_filters, wakes, resumed) ==
    /\ pdata \in {[board |-> b, use_fn_map |-> f, use_ghost_filter |-> g,
                   wakeup |-> w.wakeup, wakeup_key |-> w.wakeup_key,
                   wake_cfg |-> w.wake_cfg] :
                      b \in boards, f \in fn_maps, g \in ghost_filters,
                      w \in wakes}
    /\ current_keys = [i \in 1..MaxKpEnt |-> 0]
    /\ num_pressed_keys = 0
    /\ keypress_caused_wake = FALSE
    /\ is_open = 1
    /\ cp_to_wkup_dly = IF resumed
                        THEN ScanTimeoutCount(Cardinality(pdata.board.rows))
                        ELSE 0
    /\ ctrl = IF resumed THEN SetKeypressInterrupt(StartControl, FALSE)
              ELSE StartControl
    /\ to_cnt = ScanTimeoutCount(Cardinality(pdata.board.rows))
    /\ row_mask = [r \in 0..(KBC_MAX_ROW - 1) |-> 0]
    /\ irq_depth = 0
    /\ irq_wake = FALSE
    /\ timer = "off"
    /\ clk_count = 1
    /\ lock = "free"
    /\ mutex = "free"
    /\ users = 1
    /\ suspended = FALSE
    /\ isr_pc = "idle"
    /\ timer_pc = "idle"
    /\ ctl_pc = "idle"
    /\ ctl_val = NoVal
    /\ batch = <<>>
    /\ isr_ack = {}
    /\ kp_ent = <<>>
    /\ old_keys = <<>>
    /\ down = {}
    /\ hist = [stops |-> 0, snap |-> NoSnap]

\* the full 2 x 2 board of a wakeup-capable device, resumed, and then driven
\* by its interrupt and its timer
InitKeys ==
    Running({FullBoard}, BOOLEAN, BOOLEAN,
            {w \in WakeConfigs : w.wakeup_key # 0}, TRUE)

SpecKeys == InitKeys /\ [][Handlers]_vars

\* the driver's start and stop called directly on an opened device, in any
\* order
NextCalls ==
    \/ Handlers
    \/ StopSteps
    \/ CallStart
    \/ CallStop

InitCalls ==
    Running({OneKeyBoard}, {FALSE}, {TRUE}, {w \in WakeConfigs : ~w.wakeup}, FALSE)

SpecCalls == InitCalls /\ [][NextCalls]_vars

(* ------------------------------------------------------------------ *)
(* Vocabulary of the properties                                        *)
(* ------------------------------------------------------------------ *)

\* CurrentKeys: the codes of the first num_pressed_keys entries of current_keys
CurrentSeq == SubSeq(current_keys, 1, num_pressed_keys)
CurrentCodes == Range(CurrentSeq)

\* the state right after the timer callback has read a FIFO sample, and
\* whether tegra_kbc_report_keys reported it (a report always ends in a sync)
AfterSample == kp_ent # <<>>
Reported == AfterSample /\ batch # <<>>

\* matrix position and scan code of a key-entry byte
RowOf(byte) == (byte \div 8) % 16
ColOf(byte) == byte % 8
ScanCodeOf(byte) == RowOf(byte) * 8 + ColOf(byte)

\* the valid entries of a sample, in FIFO order
ValidLanes(s) == SelectSeq(s, LAMBDA b : b >= 128)

IsFnLane(b) == keycode(ScanCodeOf(b)) = KEY_FN

\* the sample holds the Fn key and the driver uses the Fn map
FnHeld(s, fn_map) == fn_map /\ \E i \in 1..Len(s) : s[i] >= 128 /\ IsFnLane(s[i])

\* the PressedSet of a sample: its valid entries, the Fn key consumed when the
\* driver uses the Fn map
PressedLanes(s, fn_map) ==
    SelectSeq(ValidLanes(s), LAMBDA b : ~(fn_map /\ IsFnLane(b)))

\* the events of one kind in a batch, in order
EventsOf(b, kind) == SelectSeq(b, LAMBDA e : e.t = kind)
CodesOf(evs) == [i \in 1..Len(evs) |-> evs[i].c]

(* ------------------------------------------------------------------ *)
(* C1                                                                  *)
(* ------------------------------------------------------------------ *)

\* C1: after any sequence of operations the first num_pressed_keys entries of
\* current_keys are exactly the codes for which a press has been emitted and
\* no later release
C1_CurrentKeysAreHeldKeys == CurrentCodes = down

(* ------------------------------------------------------------------ *)
(* C2                                                                  *)
(* ------------------------------------------------------------------ *)

\* C2: a reported sample's batch is: one release for each code of the old
\* CurrentKeys that is absent from the new set, then per new key its scan event
\* immediately followed by its press, then exactly one sync, CurrentKeys being
\* the new set once the batch is out; no release follows a press
C2_ReleasesThenPressesThenSync ==
    Reported =>
        LET n == num_pressed_keys
            k == Len(batch) - 2 * n - 1
            gone == SelectSeq(old_keys, LAMBDA c : c \notin CurrentCodes)
        IN /\ k = Len(gone)
           /\ \A i \in 1..k : batch[i] = EvKey(gone[i], 0)
           /\ \A j \in 1..n :
                 /\ batch[k + 2 * j - 1].t = "scan"
                 /\ batch[k + 2 * j] = EvKey(current_keys[j], 1)
           /\ batch[Len(batch)] = EvSync
           /\ Len(EventsOf(batch, "sync")) = 1
           /\ \A i, j \in 1..Len(batch) :
                 (i < j /\ batch[i].t = "press") => batch[j].t # "release"

\* C2 witness: a reported batch that holds a release and a press
C2_Witness ==
    /\ Reported
    /\ EventsOf(batch, "release") # <<>>
    /\ EventsOf(batch, "press") # <<>>

(* ------------------------------------------------------------------ *)
(* C3                                                                  *)
(* ------------------------------------------------------------------ *)

\* the two scan modes of the controller
IdleInterrupt == ctrl.fifo_int_en /\ timer = "off" /\ timer_pc = "idle"
ContinuousPoll == ~ctrl.fifo_int_en /\ (timer # "off" \/ timer_pc # "idle")

\* the two steps of a timer callback that observes zero occupancy
ZeroPoll == timer_pc = "entry" /\ timer_pc' = "enable_int"
ZeroPollReturns == timer_pc = "enable_int" /\ timer_pc' = "idle"

StartedAndRunning == is_open = 1 /\ ~suspended /\ ctl_pc = "idle"

\* C4: while the device is started and not suspended, whenever kbc->lock is
\* free the controller is in exactly one of Idle-Interrupt (FIFO threshold
\* interrupt enabled, no poll timer armed) and Continuous-Poll (FIFO threshold
\* interrupt disabled, the poll timer armed or its callback under way)
C4_ExactlyOneScanMode ==
    (StartedAndRunning /\ lock = "free") =>
        ((IdleInterrupt \/ ContinuousPoll) /\ ~(IdleInterrupt /\ ContinuousPoll))

(* ------------------------------------------------------------------ *)
(* C5                                                                  *)
(* ------------------------------------------------------------------ *)

\* three entries at (r0,c0), (r0,c1), (r1,c0) with r0 # r1 and c0 # c1
LShaped(lanes) ==
    /\ Len(lanes) = 3
    /\ \E i, j, k \in 1..3 :
          /\ RowOf(lanes[i]) = RowOf(lanes[j])
          /\ ColOf(lanes[i]) # ColOf(lanes[j])
          /\ ColOf(lanes[i]) = ColOf(lanes[k])
          /\ RowOf(lanes[i]) # RowOf(lanes[k])

\* the sample was dropped whole: no event, CurrentKeys as it was
LeftUntouched == batch = <<>> /\ CurrentSeq = old_keys

\* C5 as stated: with the ghost filter enabled, a sample whose decoded valid
\* entries are exactly three L-shaped positions is discarded whole: no event
\* is emitted and CurrentKeys (contents and count) is unchanged
C5_ValidEntriesLShapedDiscarded ==
    (AfterSample /\ pdata.use_ghost_filter /\ LShaped(ValidLanes(kp_ent)))
        => LeftUntouched

\* C5 amended: with the ghost filter enabled, a sample whose PressedSet (the
\* valid entries, less the Fn key when the Fn map is in use) is exactly three
\* L-shaped positions is discarded whole: no event is emitted and CurrentKeys
\* (contents and count) is unchanged
C5_PressedSetLShapedDiscarded ==
    (AfterSample /\ pdata.use_ghost_filter
        /\ LShaped(PressedLanes(kp_ent, pdata.use_fn_map)))
        => LeftUntouched

\* C5 witness: an L-shaped sample was discarded while two keys were held
C5_Witness ==
    /\ AfterSample
    /\ pdata.use_ghost_filter
    /\ LShaped(PressedLanes(kp_ent, pdata.use_fn_map))
    /\ batch = <<>>
    /\ num_pressed_keys = 2
    /\ CurrentSeq = old_keys

(* ------------------------------------------------------------------ *)
(* C6                                                                  *)
(* ------------------------------------------------------------------ *)

\* the scan code the driver reports for a key of the sample: the Fn layer's
\* when the Fn key is held
ReportedScanCode(b, fn_held) ==
    IF fn_held THEN ScanCodeOf(b) + KBC_MAX_KEY ELSE ScanCodeOf(b)

\* the scan codes and the output codes of the sample's PressedSet, in FIFO order
PressedScanCodes(s, fn_map) ==
    LET keys == PressedLanes(s, fn_map)
    IN [i \in 1..Len(keys) |-> ReportedScanCode(keys[i], FnHeld(s, fn_map))]

PressedCodes(s, fn_map) ==
    LET sc == PressedScanCodes(s, fn_map)
    IN [i \in 1..Len(sc) |-> keycode(sc[i])]

\* C6: a sample with fewer than 3 pressed entries, and any sample when
\* use_ghost_filter is false, is never discarded and reaches the key state
\* tracker unmodified: the same keys in the same order
C6_FilterIsIdentity ==
    (AfterSample /\ (~pdata.use_ghost_filter
                        \/ Len(PressedLanes(kp_ent, pdata.use_fn_map)) < 3))
        => /\ Reported
           /\ CodesOf(EventsOf(batch, "scan"))
                 = PressedScanCodes(kp_ent, pdata.use_fn_map)
           /\ CodesOf(EventsOf(batch, "press"))
                 = PressedCodes(kp_ent, pdata.use_fn_map)
           /\ CurrentSeq = PressedCodes(kp_ent, pdata.use_fn_map)

\* C6 witness: an L-shaped sample of three keys reported with the filter off
C6_Witness ==
    /\ Reported
    /\ ~pdata.use_ghost_filter
    /\ LShaped(PressedLanes(kp_ent, pdata.use_fn_map))
    /\ num_pressed_keys = 3

(* ------------------------------------------------------------------ *)
(* C7                                                                  *)
(* ------------------------------------------------------------------ *)

\* C7: a sample whose PressedSet is the one CurrentKeys holds from the poll
\* before yields one press per key of the set and no release, and leaves
\* CurrentKeys as it was; in every reported sample a release is emitted only
\* for a code of the previous set that is absent from the new set
C7_SameSetPressesOnly ==
    Reported =>
        /\ (PressedCodes(kp_ent, pdata.use_fn_map) = old_keys =>
               /\ EventsOf(batch, "release") = <<>>
               /\ CodesOf(EventsOf(batch, "press")) = old_keys
               /\ CurrentSeq = old_keys)
        /\ Range(CodesOf(EventsOf(batch, "release")))
              \subseteq (Range(old_keys) \ Range(PressedCodes(kp_ent, pdata.use_fn_map)))

\* C7 witness: the two keys that were held are sampled again
C7_Witness ==
    /\ Reported
    /\ Len(old_keys) = 2
    /\ PressedCodes(kp_ent, pdata.use_fn_map) = old_keys
    /\ Len(EventsOf(batch, "press")) = 2

(* ------------------------------------------------------------------ *)
(* C8                                                                  *)
(* ------------------------------------------------------------------ *)

\* the valid entries of the sample that are not the Fn key
OtherLanes(s) == SelectSeq(ValidLanes(s), LAMBDA b : ~IsFnLane(b))

\* C8: with use_fn_map, a sample holding the Fn key and other keys produces no
\* press and no release of the Fn key, and the keys it reports are the other
\* keys, each with the code keycode[scan code + KBC_MAX_KEY]; the sample is
\* left unreported only by the ghost filter
C8_FnKeyRemapsWholeSample ==
    (AfterSample /\ FnHeld(kp_ent, pdata.use_fn_map) /\ OtherLanes(kp_ent) # <<>>)
        => LET others == OtherLanes(kp_ent)
               alt == [i \in 1..Len(others) |->
                          keycode(ScanCodeOf(others[i]) + KBC_MAX_KEY)]
           IN /\ \A i \in 1..Len(batch) :
                    batch[i].t \in {"press", "release"} => batch[i].c # KEY_FN
              /\ IF Reported
                 THEN /\ CodesOf(EventsOf(batch, "press")) = alt
                      /\ CurrentSeq = alt
                 ELSE pdata.use_ghost_filter /\ Len(others) >= 3

\* C8 witness: the Fn key and two other keys sampled, the two reported with
\* their Fn-layer codes
C8_Witness ==
    /\ Reported
    /\ FnHeld(kp_ent, pdata.use_fn_map)
    /\ Len(OtherLanes(kp_ent)) = 2
    /\ Len(EventsOf(batch, "press")) = 2

(* ------------------------------------------------------------------ *)
(* C9                                                                  *)
(* ------------------------------------------------------------------ *)

\* tegra_kbc_stop has returned and tegra_kbc_start has not run since
Stopped == hist.stops > 0

\* C9: from the return of tegra_kbc_stop until the next start the IRQ is
\* masked, no poll timer is pending, and neither the timer callback nor the
\* interrupt handler is executing
C9_StoppedIsQuiet ==
    Stopped => /\ irq_depth > 0
               /\ timer = "off"
               /\ timer_pc = "idle"
               /\ isr_pc = "idle"
               /\ lock = "free"

\* C9 witness: the device was stopped in Continuous-Poll with a key held
C9_Witness ==
    /\ Stopped
    /\ num_pressed_keys > 0
    /\ ~ctrl.fifo_int_en
    /\ irq_depth = 1

(* ------------------------------------------------------------------ *)
(* C10                                                                 *)
(* ------------------------------------------------------------------ *)

\* C10: tegra_kbc_stop called twice in a row leaves the controller as one call
\* does: the same IRQ disable depth, clock enable count, is_open, timer and
\* control register
C10_StopIsIdempotent ==
    hist.stops = 2 =>
        StopState(irq_depth, clk_count, is_open, timer, ctrl) = hist.snap

(* ------------------------------------------------------------------ *)
(* C11                                                                 *)
(* ------------------------------------------------------------------ *)

\* the step changes CurrentKeys (current_keys or num_pressed_keys)
WritesCurrentKeys == current_keys' # current_keys \/ num_pressed_keys' # num_pressed_keys

\* the step is taken by the timer callback as it enters its critical section
TakenUnderLockByTimer == timer_pc = "entry" /\ lock = "free" /\ lock' = "timer"

\* C11: every write to CurrentKeys (current_keys and num_pressed_keys), in any
\* operation, happens while the writer holds kbc->lock
C11_CurrentKeysWrittenUnderLock ==
    [][WritesCurrentKeys => TakenUnderLockByTimer]_vars

(* ------------------------------------------------------------------ *)
(* C12                                                                 *)
(* ------------------------------------------------------------------ *)

\* the step in which the timer callback starts a poll cycle
PollCycleStarts == timer_pc = "idle" /\ timer_pc' = "entry"

\* the step in which the timer callback arms the next timer
CallbackArmsTimer == timer_pc \in {"repoll_dly", "min_dly"} /\ timer_pc' = "unlock"

\* C12: at most one poll cycle is active at a time, and the timer callback arms
\* the next timer only after the current report cycle has finished and
\* kbc->lock has been released
C12_TimerArmedAfterUnlock ==
    [][/\ PollCycleStarts => lock # "timer"
       /\ CallbackArmsTimer => lock # "timer"]_vars

\* C12, amended: a poll cycle starts only when no other cycle is active, and
\* the timer callback arms the next timer only after the report of the current
\* cycle has finished, in a step of its own that reports nothing and is taken
\* with kbc->lock still held; the lock is released afterwards
C12_TimerArmedUnderLockAfterReport ==
    [][/\ PollCycleStarts => lock # "timer" /\ timer' = "off"
       /\ (timer_pc = "entry" /\ timer_pc' # "entry") => timer' = timer
       /\ CallbackArmsTimer =>
             /\ lock = "timer" /\ lock' = "timer"
             /\ timer' = timer_pc
             /\ batch' = <<>>
             /\ UNCHANGED keyvars
       /\ (timer_pc = "unlock" /\ timer_pc' = "idle") => lock' = "free" /\ timer' = timer]_vars

\* the callback has armed the next timer and still holds kbc->lock
C12_Witness == timer_pc = "unlock" /\ timer \in {"repoll_dly", "min_dly"} /\ lock = "timer"

(* ------------------------------------------------------------------ *)
(* C13                                                                 *)
(* ------------------------------------------------------------------ *)

\* a step of tegra_kbc_suspend or tegra_kbc_resume on the wake path that
\* cancels the timer, rewrites the wake masks or rewrites KBC_CONTROL_0
PmRegisterStep ==
    \/ ctl_pc = "susp_timer" /\ ctl_pc' = "idle"
    \/ ctl_pc = "idle" /\ ctl_pc' = "res_kp"
    \/ ctl_pc = "res_kp" /\ ctl_pc' = "res_fifo"
    \/ ctl_pc = "res_fifo" /\ ctl_pc' = "idle"

\* the step writes back a KBC_CONTROL_0 value read in an earlier step
PmWritesBackControl == ctl_pc \in {"res_kp", "res_fifo"} /\ ctl_pc' # ctl_pc

\* C13: tegra_kbc_suspend and tegra_kbc_resume hold idev->mutex and kbc->lock
\* around every step that enables or disables the FIFO or keypress interrupt,
\* rewrites the wake masks or cancels the timer, so that no such step is taken
\* while the ISR or the timer callback is in its critical section and every
\* read-modify-write of the control register writes back the value it read
C13_PmStepsUnderBothLocks ==
    [][/\ PmRegisterStep => mutex' # "free" \/ mutex # "free"
       /\ PmRegisterStep => lock = "free"
       /\ PmWritesBackControl => ctl_val = ctrl]_vars

(* ------------------------------------------------------------------ *)
(* C14                                                                 *)
(* ------------------------------------------------------------------ *)

\* number of keys down in the sample just read: its valid entries
KeysDownInSample == Len(ValidLanes(kp_ent))

\* C14: on a timer fire with non-zero FIFO occupancy the timer is re-armed
\* after the repoll delay if exactly one key is down in that sample, and after
\* the minimal delay if more than one key is down
C14_DelayFollowsKeyCount ==
    AfterSample =>
        /\ KeysDownInSample = 1 => timer_pc = "repoll_dly"
        /\ KeysDownInSample > 1 => timer_pc = "min_dly"

(* ------------------------------------------------------------------ *)
(* C15                                                                 *)
(* ------------------------------------------------------------------ *)

\* the steps of the interrupt handler
IsrEnters == isr_pc = "idle" /\ isr_pc' # "idle"
IsrLeaves == isr_pc # "idle" /\ isr_pc' = "idle"

\* the handler found the FIFO threshold status set
ThresholdSeen == "fifo_cnt" \in isr_ack'

\* C15: the ISR, on a FIFO threshold status, clears the status, disables the
\* FIFO threshold interrupt and arms the one-shot timer after cp_dly_jiffies,
\* all inside one critical section of kbc->lock; when the threshold bit is not
\* set it changes neither the interrupt enable nor the timer; in no case does
\* it emit events or modify CurrentKeys
C15_IsrDefersToTimer ==
    [][/\ IsrEnters =>
             /\ lock = "free" /\ lock' = "isr"
             /\ isr_ack' # {}
             /\ timer' = timer
             /\ IF ThresholdSeen
                THEN /\ ctrl' = SetFifoInterrupt(ctrl, FALSE)
                     /\ isr_pc' = "arm"
                ELSE /\ ctrl' = ctrl
                     /\ isr_pc' = "unlock"
             /\ batch' = <<>> /\ down' = down
             /\ UNCHANGED keyvars
       /\ IsrLeaves =>
             /\ lock = "isr" /\ lock' = "free"
             /\ timer' = IF isr_pc = "arm" THEN "cp_dly" ELSE timer
             /\ ctrl' = ctrl
             /\ isr_ack' = {}
             /\ batch' = <<>> /\ down' = down
             /\ UNCHANGED keyvars
       /\ (isr_pc # "idle" /\ lock' # "isr") => IsrLeaves]_vars

\* the handler has acknowledged a threshold interrupt, disabled it and is
\* about to arm the timer, inside its critical section
C15_Witness ==
    /\ isr_pc = "arm"
    /\ "fifo_cnt" \in isr_ack
    /\ lock = "isr"
    /\ ~ctrl.fifo_int_en
    /\ timer = "off"

(* ------------------------------------------------------------------ *)
(* C16                                                                 *)
(* ------------------------------------------------------------------ *)

\* bit col of KBC_ROWn_MASK_0, n = row
WakeMaskBit(row, col) == (row_mask[row] \div (2 ^ col)) % 2

\* (row, col) is one of the configured wake keys
InWakeList(row, col) ==
    \E i \in 1..Len(pdata.wake_cfg) :
        pdata.wake_cfg[i].row = row /\ pdata.wake_cfg[i].col = col

\* columns of a row mask
MaskCols == 0..7

\* tegra_kbc_suspend has run its wake path and tegra_kbc_resume has not begun
SuspendedForWake == suspended /\ is_open = 1 /\ pdata.wakeup /\ ctl_pc = "idle"

\* the controller is started and no suspend or resume is under way
StartedOrResumed == ~suspended /\ is_open = 1 /\ ctl_pc = "idle"

\* C16: after a suspend with wake enabled and a non-empty wake key list, the
\* wake-mask bit of (row, col) is 0 exactly when (row, col) is in the list and
\* every other bit is 1; with an empty list every bit is 0; after resume and
\* after start every wake-mask bit of every row is 0
C16_WakeMasksFollowWakeKeys ==
    /\ SuspendedForWake =>
          \A r \in 0..(KBC_MAX_ROW - 1), c \in MaskCols :
              WakeMaskBit(r, c) =
                  IF Len(pdata.wake_cfg) = 0 \/ InWakeList(r, c) THEN 0 ELSE 1
    /\ StartedOrResumed =>
          \A r \in 0..(KBC_MAX_ROW - 1), c \in MaskCols : WakeMaskBit(r, c) = 0

\* suspended with two wake keys: their bits are clear, a neighbour's is set
C16_Witness ==
    /\ SuspendedForWake
    /\ Len(pdata.wake_cfg) = 2
    /\ WakeMaskBit(0, 0) = 0
    /\ WakeMaskBit(1, 2) = 0
    /\ WakeMaskBit(1, 0) = 1
    /\ WakeMaskBit(15, 7) = 1

(* ------------------------------------------------------------------ *)
(* C17                                                                 *)
(* ------------------------------------------------------------------ *)

\* a step of the wake path of tegra_kbc_resume on an open device
ResumeWakeStep ==
    \/ ctl_pc = "idle" /\ ctl_pc' = "res_kp"
    \/ ctl_pc = "res_kp" /\ ctl_pc' = "res_fifo"
    \/ ctl_pc = "res_fifo" /\ ctl_pc' = "idle"

\* the last step of the wake path, in which the wakeup key is reported
ResumeWakeReturns == ctl_pc = "res_fifo" /\ ctl_pc' = "idle"

\* the wake-up was caused by a key press since the suspend, and a wakeup key
\* code is configured
WokenByKey == keypress_caused_wake /\ pdata.wakeup_key # 0

\* the scan-timeout count a started controller runs with
StartedTimeoutCount == ScanTimeoutCount(Cardinality(pdata.board.rows))

\* C17: on resume of an open, wake-capable device, if the wake-up was caused by
\* a key press between suspend and resume and a wakeup key code is configured,
\* exactly one press of that code, one release of it and one sync are emitted;
\* otherwise resume emits no event; in both cases CurrentKeys is unchanged and
\* the scan-timeout register holds the value it had before the suspend
C17_ResumeReportsWakeupKey ==
    [][/\ ResumeWakeStep =>
             /\ UNCHANGED keyvars
             /\ ~ResumeWakeReturns => batch' = <<>>
       /\ ResumeWakeReturns =>
             /\ batch' = IF WokenByKey
                         THEN <<EvKey(pdata.wakeup_key, 1),
                                EvKey(pdata.wakeup_key, 0), EvSync>>
                         ELSE <<>>
             /\ to_cnt' = StartedTimeoutCount
             /\ to_cnt' = cp_to_wkup_dly
       /\ (ctl_pc = "susp_timer" /\ ctl_pc' = "idle") =>
             /\ to_cnt = StartedTimeoutCount
             /\ cp_to_wkup_dly' = to_cnt
             /\ ~keypress_caused_wake']_vars

\* resume has just reported the wakeup key
C17_Witness ==
    /\ ctl_pc = "idle" /\ ~suspended /\ is_open = 1
    /\ keypress_caused_wake
    /\ batch = <<EvKey(30, 1), EvKey(30, 0), EvSync>>
    /\ to_cnt = StartedTimeoutCount

(* ------------------------------------------------------------------ *)
(* C18                                                                 *)
(* ------------------------------------------------------------------ *)

\* key codes of the matrix positions (0,0) and (1,1) in the plain layer
K00 == keycode(MATRIX_SCAN_CODE(0, 0))
K11 == keycode(MATRIX_SCAN_CODE(1, 1))

\* the valid entries of the scenario's samples A and B, in FIFO order
SampleA == <<KpEntByte(0, 0)>>
SampleB == <<KpEntByte(0, 0), KpEntByte(1, 1)>>

\* the key and sync events of a batch, without its scan-code events
KeyEvents(b) == SelectSeq(b, LAMBDA e : e.t # "scan")

\* the timer callback's step that reads the FIFO occupancy
PollStep == timer_pc = "entry" /\ timer_pc' # "entry"

\* ghost filter on, plain layer only
ScenarioConfig == pdata.use_ghost_filter /\ ~pdata.use_fn_map

\* the FIFO of the scenario: sample A while no key is current, sample B once
\* (0,0) is current, zero occupancy once both keys are
ScenarioFifo ==
    PollStep =>
        IF CurrentSeq = <<>> THEN ValidLanes(kp_ent') = SampleA
        ELSE IF CurrentSeq = <<K00>> THEN ValidLanes(kp_ent') = SampleB
        ELSE ZeroPoll

\* a started controller with the ghost filter on, driven by its interrupt and
\* its timer, whose FIFO delivers the samples A, B and then nothing
InitScenario ==
    Running({FullBoard}, {FALSE}, {TRUE}, {w \in WakeConfigs : w.wakeup}, TRUE)

\* the timer callback's poll, reading what the scenario's FIFO delivers
ScenarioPoll == tegra_kbc_keypress_timer_poll /\ ScenarioFifo

NextScenario ==
    \/ tegra_kbc_isr_enter
    \/ tegra_kbc_isr_exit
    \/ TimerExpire
    \/ ScenarioPoll
    \/ tegra_kbc_keypress_timer_rearm
    \/ tegra_kbc_keypress_timer_exit

SpecScenario == InitScenario /\ [][NextScenario]_vars

MaxGpio == 3

KBC_MAX_COL == 8

\* pin roles: the three of enum tegra_pin_type and a value outside it
PinTypes == {"PIN_CFG_IGNORE", "PIN_CFG_COL", "PIN_CFG_ROW", "other"}

\* pin numbers around the two limits
PinNums == {7, 8, 15, 16}

PinConfigs == [1..MaxGpio -> [type : PinTypes, num : PinNums]]

\* a row number one past the limit accepted
RowNumberInvalid_Above(num) == num > KBC_MAX_ROW

\* pin_cfg->num >= KBC_MAX_ROW
RowNumberInvalid(num) == num >= KBC_MAX_ROW

\* pin_cfg->num >= KBC_MAX_COL
ColNumberInvalid(num) == num >= KBC_MAX_COL

\* the loop of tegra_kbc_check_pin_cfg from pin i on, num_rows counted so far
RECURSIVE CheckPins(_, _, _)
CheckPins(pin_cfg, i, num_rows) ==
    IF i > Len(pin_cfg) THEN [ok |-> TRUE, num_rows |-> num_rows]
    ELSE CASE pin_cfg[i].type = "PIN_CFG_ROW" ->
                  IF RowNumberInvalid(pin_cfg[i].num)
                  THEN [ok |-> FALSE, num_rows |-> num_rows]
                  ELSE CheckPins(pin_cfg, i + 1, num_rows + 1)
           [] pin_cfg[i].type = "PIN_CFG_COL" ->
                  IF ColNumberInvalid(pin_cfg[i].num)
                  THEN [ok |-> FALSE, num_rows |-> num_rows]
                  ELSE CheckPins(pin_cfg, i + 1, num_rows)
           [] pin_cfg[i].type = "PIN_CFG_IGNORE" ->
                  CheckPins(pin_cfg, i + 1, num_rows)
           [] OTHER -> [ok |-> FALSE, num_rows |-> num_rows]

tegra_kbc_check_pin_cfg(pin_cfg) == CheckPins(pin_cfg, 1, 0)

\* rows and columns wired by a pin configuration
BoardOf(pin_cfg) ==
    [rows |-> {pin_cfg[i].num : i \in {j \in 1..Len(pin_cfg) : pin_cfg[j].type = "PIN_CFG_ROW"}},
     cols |-> {pin_cfg[i].num : i \in {j \in 1..Len(pin_cfg) : pin_cfg[j].type = "PIN_CFG_COL"}}]

\* the registers at their reset values
RegistersUntouched ==
    /\ ctrl = NoVal
    /\ to_cnt = 0
    /\ row_mask = [r \in 0..(KBC_MAX_ROW - 1) |-> 0]

\* before tegra_kbc_probe: platform data handed over, no IRQ handler, no
\* timer, nothing of kbc initialised
Unbound ==
    /\ pdata \in {[board |-> BoardOf(p), use_fn_map |-> FALSE,
                   use_ghost_filter |-> TRUE, wakeup |-> w.wakeup,
                   wakeup_key |-> w.wakeup_key, wake_cfg |-> w.wake_cfg,
                   pin_cfg |-> p] : p \in PinConfigs, w \in WakeConfigs}
    /\ current_keys = [i \in 1..MaxKpEnt |-> 0]
    /\ num_pressed_keys = 0
    /\ keypress_caused_wake = FALSE
    /\ is_open = 0
    /\ cp_to_wkup_dly = 0
    /\ RegistersUntouched
    /\ irq_depth = 0
    /\ irq_wake = FALSE
    /\ timer = "off"
    /\ clk_count = 0
    /\ lock = "free"
    /\ mutex = "free"
    /\ users = 0
    /\ suspended = FALSE
    /\ isr_pc = "none"
    /\ timer_pc = "none"
    /\ ctl_pc = "unbound"
    /\ ctl_val = NoVal
    /\ batch = <<>>
    /\ isr_ack = {}
    /\ kp_ent = <<>>
    /\ old_keys = <<>>
    /\ down = {}
    /\ hist = [stops |-> 0, snap |-> NoSnap]

\* tegra_kbc_probe: -EINVAL when tegra_kbc_check_pin_cfg fails; else the timer
\* is set up, the IRQ requested and disabled, and the device registered
tegra_kbc_probe ==
    /\ ctl_pc = "unbound"
    /\ IF tegra_kbc_check_pin_cfg(pdata.pin_cfg).ok
       THEN /\ timer_pc' = "idle"
            /\ isr_pc' = "idle"
            /\ irq_depth' = irq_depth + 1
            /\ ctl_pc' = "idle"
       ELSE /\ ctl_pc' = "failed"
            /\ UNCHANGED <<timer_pc, isr_pc, irq_depth>>
    /\ Emit(<<>>)
    /\ UNCHANGED <<cfgvars, keyvars, keypress_caused_wake, is_open, cp_to_wkup_dly,
                   regvars, irq_wake, timer, clk_count, lock, mutex, sysvars,
                   ctl_val, hist>>

\* probe, then the input core opening and closing the registered device
NextProbe ==
    \/ tegra_kbc_probe
    \/ tegra_kbc_open
    \/ tegra_kbc_close
    \/ StopSteps

SpecProbe == Unbound /\ [][NextProbe]_vars

\* the configuration has a pin the claim calls invalid
HasInvalidPin ==
    \E i \in 1..Len(pdata.pin_cfg) :
        \/ pdata.pin_cfg[i].type = "PIN_CFG_ROW" /\ pdata.pin_cfg[i].num >= KBC_MAX_ROW
        \/ pdata.pin_cfg[i].type = "PIN_CFG_COL" /\ pdata.pin_cfg[i].num >= KBC_MAX_COL
        \/ pdata.pin_cfg[i].type \notin {"PIN_CFG_ROW", "PIN_CFG_COL", "PIN_CFG_IGNORE"}

\* C19: if the configuration has a pin with a row number >= KBC_MAX_ROW, a
\* column number >= KBC_MAX_COL or an unrecognized role, probe returns an error
\* before any register is written and before the IRQ handler or the timer is
\* set up, and the controller is never started
C19_BadPinConfigFailsProbe ==
    (HasInvalidPin /\ ctl_pc # "unbound") =>
        /\ ctl_pc = "failed"
        /\ isr_pc = "none"
        /\ timer_pc = "none"
        /\ RegistersUntouched
        /\ irq_depth = 0
        /\ timer = "off"
        /\ is_open = 0
        /\ clk_count = 0

\* probe has failed on a configuration whose only fault is a row pin numbered
\* KBC_MAX_ROW
C19_Witness ==
    /\ ctl_pc = "failed"
    /\ \E i \in 1..MaxGpio :
          /\ pdata.pin_cfg[i] = [type |-> "PIN_CFG_ROW", num |-> KBC_MAX_ROW]
          /\ \A j \in (1..MaxGpio) \ {i} :
                pdata.pin_cfg[j] = [type |-> "PIN_CFG_COL", num |-> 7]

(* ------------------------------------------------------------------ *)
(* C20                                                                 *)
(* ------------------------------------------------------------------ *)

\* the step is a run of tegra_kbc_start (clk_prepare_enable first of all)
StartRuns == clk_count' = clk_count + 1

\* the step is the first of tegra_kbc_stop
StopBegins == ctl_pc = "stop_ctrl" /\ ctl_pc' = "stop_irq"

\* C20: in every sequence of probe, open, close, suspend and resume,
\* tegra_kbc_start runs only on a stopped controller and tegra_kbc_stop only on
\* a started one, so enable_irq and disable_irq stay balanced: the IRQ disable
\* depth is always 0 or 1, and outside the suspend and resume critical sections
\* it is 0 exactly when is_open is 1
C20_StartStopBalanced ==
    [][/\ StartRuns => is_open = 0
       /\ StopBegins => is_open = 1
       /\ irq_depth' \in {0, 1}
       /\ ctl_pc' = "idle" => (irq_depth' = 0 <=> is_open' = 1)]_vars

(* ------------------------------------------------------------------ *)
(* C21                                                                 *)
(* ------------------------------------------------------------------ *)

\* C21: whenever the controller is in Idle-Interrupt (FIFO threshold interrupt
\* enabled, no timer armed, no handler running), CurrentKeys is empty, after
\* any sequence of interrupts, timer polls and suspend/resume cycles, a
\* suspend that cancels the poll timer while keys are held included
C21_IdleHasNoCurrentKeys ==
    (StartedOrResumed /\ IdleInterrupt /\ isr_pc = "idle") => num_pressed_keys = 0

(* ------------------------------------------------------------------ *)
(* C22                                                                 *)
(* ------------------------------------------------------------------ *)

\* an expired timer's callback is run, a callback spinning on kbc->lock gets
\* it once it is released often enough, the callback and the interrupt handler
\* run to their end
HandlersFair ==
    /\ WF_vars(TimerExpire)
    /\ SF_vars(tegra_kbc_keypress_timer_poll)
    /\ WF_vars(tegra_kbc_keypress_timer_rearm)
    /\ WF_vars(tegra_kbc_keypress_timer_exit)
    /\ WF_vars(tegra_kbc_isr_exit)

\* a started, not suspended device with the two keys of row 0, fresh from
\* tegra_kbc_start or resumed, under fair scheduling of its handlers
InitFair ==
    \E resumed \in BOOLEAN :
        Running({[rows |-> {0}, cols |-> {0, 1}]}, {FALSE}, BOOLEAN,
                {w \in WakeConfigs : w.wakeup}, resumed)

SpecKeysFair == InitFair /\ [][Handlers]_vars /\ HandlersFair

\* from some point on the FIFO is empty: every poll reads zero occupancy and
\* the handler finds no threshold status (the threshold is one entry)
OccupancyStaysZero ==
    <>[][(PollStep => ZeroPoll) /\ (IsrEnters => ~ThresholdSeen)]_vars

\* back in Idle-Interrupt with no current key and no key held at the sink
IdleAllReleased ==
    IdleInterrupt /\ isr_pc = "idle" /\ num_pressed_keys = 0 /\ down = {}

\* C22: under fair scheduling of the timer callback, while the device stays
\* started and not suspended, once in Continuous-Poll, if the FIFO occupancy
\* eventually stays zero the controller eventually returns to Idle-Interrupt
\* with CurrentKeys empty, and every key whose press was emitted has been
\* released
C22_PollingEndsInIdle ==
    OccupancyStaysZero => [](ContinuousPoll => <>IdleAllReleased)

\* polling with a key held at the sink: the state the release is owed from
C22_Witness ==
    /\ ContinuousPoll
    /\ timer \in {"repoll_dly", "min_dly"}
    /\ timer_pc = "idle"
    /\ num_pressed_keys = 2
    /\ down = CurrentCodes

====
